---- MODULE Spec2Model ----
(***************************************************************************)
(* Model of core::Timeline (src/src/core/timeline.rs): a virtual clock and *)
(* a BinaryHeap of Rc<Trigger>, with Weak<Trigger> handles for             *)
(* cancellation and actions that call back into schedule / cancel while    *)
(* run() is draining the heap.                                             *)
(*                                                                         *)
(* Times are f64 in the source; the model uses small integers, on which    *)
(* f64 addition and comparison are exact.                                  *)
(***************************************************************************)
EXTENDS Integers, Sequences, FiniteSets, TLC

\* ---- bounds ----
MaxTriggers == 3        \* number of schedule calls over a behaviour
MaxDelay == 2           \* largest delay passed to schedule
MaxNeg == 1             \* magnitude of the negative delay passed to schedule

\* the delays callers pass: one negative value and every value 0..MaxDelay
Delays == {0 - MaxNeg} \cup (0..MaxDelay)

VARIABLES
    time,               \* Timeline.time : Cell<f64>
    queue,              \* Timeline.queue : the BinaryHeap's vector, of trigger ids
    trig,               \* the Trigger objects ever allocated, by id: [time, cancelled]
    pc,                 \* "idle": outside run(); "loop": top of run()'s loop; "action": inside next's action
    next,               \* run()'s local `next` (id of the popped trigger), 0 when none
    log,                \* invocations observed so far: <<[id, now]>>
    sched,              \* per trigger id, the schedule call that made it: [at, delay, by, pend]
    cancelledPending,   \* ids on which cancel() was called while still in the queue
    runStart,           \* what the caller of the current/last run() saw: [time, loglen]
    strong,             \* per trigger id, the strong count of its Rc
    ctx                 \* the state a self-rescheduling action closes over: [counter, limit]

vars == <<time, queue, trig, pc, next, log, sched, cancelledPending, runStart, strong, ctx>>

\* ---- helpers ----
Range(s) == {s[i] : i \in 1..Len(s)}

Ids == 1..Len(trig)

InQueue(id) == id \in Range(queue)

LogIds == {log[k].id : k \in 1..Len(log)}

LogPos(id) == CHOOSE k \in 1..Len(log) : log[k].id = id

\* ---- Trigger ordering (impl PartialOrd for Trigger) ----
\* a <= b on triggers: other.time.partial_cmp(&self.time) is Less or Equal,
\* i.e. the comparison of the times is reversed (earliest time is greatest).
TriggerLeMutant(tr, a, b) == tr[a].time <= tr[b].time

TriggerLe(tr, a, b) == tr[b].time <= tr[a].time

\* ---- BinaryHeap (std::collections) over the vector `data` ----
\* position p here is index p-1 of the vector; parent (i-1)/2 is p \div 2,
\* children 2i+1, 2i+2 are 2p, 2p+1.
RECURSIVE SiftUp(_, _, _, _)
SiftUp(tr, data, elt, pos) ==
    IF pos > 1 /\ ~TriggerLe(tr, elt, data[pos \div 2])
    THEN SiftUp(tr, [data EXCEPT ![pos] = data[pos \div 2]], elt, pos \div 2)
    ELSE [data EXCEPT ![pos] = elt]

RECURSIVE SiftDownToBottom(_, _, _, _)
SiftDownToBottom(tr, data, elt, pos) ==
    LET end == Len(data)
        left == 2 * pos
        right == 2 * pos + 1
    IN  IF right <= end
        THEN LET child == IF TriggerLe(tr, data[left], data[right]) THEN right ELSE left
             IN  SiftDownToBottom(tr, [data EXCEPT ![pos] = data[child]], elt, child)
        ELSE IF left = end
             THEN SiftUp(tr, [data EXCEPT ![pos] = data[left]], elt, left)
             ELSE SiftUp(tr, data, elt, pos)

\* push without restoring the heap order
HeapPushMutant(tr, data, id) == Append(data, id)

HeapPush(tr, data, id) == SiftUp(tr, Append(data, id), id, Len(data) + 1)

\* the popped item (data is non-empty): the last element when it is the only
\* one, otherwise the root the last element was swapped with
HeapPopItem(data) == data[1]

\* the vector left after pop (data is non-empty)
HeapPopRestMutant(tr, data) == data

HeapPopRest(tr, data) ==
    LET last == data[Len(data)]
        rest == SubSeq(data, 1, Len(data) - 1)
    IN  IF rest = <<>> THEN <<>> ELSE SiftDownToBottom(tr, rest, last, 1)

\* ---- Weak<Trigger>::upgrade ----
\* A trigger is kept alive by the queue's Rc and, during one loop iteration
\* of run(), by the local `next`.  Returns the id, or 0 for None.
UpgradeMutant(q, p, nx, h) == h

Upgrade(q, p, nx, h) ==
    IF h \in Range(q) \/ (p = "action" /\ nx = h) THEN h ELSE 0

\* ---- Timeline::new ----
Init ==
    /\ time = 0
    /\ queue = <<>>
    /\ trig = <<>>
    /\ pc = "idle"
    /\ next = 0
    /\ log = <<>>
    /\ sched = <<>>
    /\ cancelledPending = {}
    /\ runStart = [time |-> 0, loglen |-> 0]
    /\ strong = <<>>
    /\ ctx = [counter |-> 0, limit |-> 0]

\* ---- RefCell<BinaryHeap> borrow ----
\* whether a mutable borrow of the queue is outstanding at control position p.
\* Both borrow_mut() guards are temporaries of one statement (the push in
\* schedule, the pop in run) and are dropped when that statement ends, so
\* none is outstanding between statements.
QueueBorrowedMutant(p) == p = "action"

QueueBorrowed(p) == FALSE

\* ---- Timeline::schedule ----
DueTimeMutant(clock, delay) == clock

DueTime(clock, delay) == clock + delay

\* strong count of the new trigger when schedule returns: Rc::new gives 1,
\* the clone pushed on the queue 2, and the local r is dropped at return
StrongAfterSchedule == 1

\* the call itself; borrow_mut() panics when the queue is already borrowed
ScheduleCall(delay) ==
    /\ pc \in {"idle", "action"}
    /\ ~QueueBorrowed(pc)
    /\ LET id == Len(trig) + 1
           tr == Append(trig, [time |-> DueTime(time, delay), cancelled |-> FALSE])
       IN  /\ trig' = tr
           /\ queue' = HeapPush(tr, queue, id)
           /\ sched' = Append(sched, [at |-> time, delay |-> delay,
                                      by |-> IF pc = "action" THEN next ELSE 0,
                                      pend |-> Range(queue)])
    /\ strong' = Append(strong, StrongAfterSchedule)
    /\ UNCHANGED <<time, pc, next, log, cancelledPending, runStart>>

Schedule(delay) ==
    /\ Len(trig) < MaxTriggers
    /\ ScheduleCall(delay)
    /\ UNCHANGED ctx

\* ---- handle.upgrade() then Trigger::cancel ----
CancelHandle(tr, q, p, nx, h) ==
    LET t == Upgrade(q, p, nx, h)
    IN  IF t = 0 THEN tr ELSE [tr EXCEPT ![t].cancelled = TRUE]

Cancel(h) ==
    /\ pc \in {"idle", "action"}
    /\ h \in Ids
    /\ trig' = CancelHandle(trig, queue, pc, next, h)
    /\ cancelledPending' = IF InQueue(h) THEN cancelledPending \cup {h} ELSE cancelledPending
    /\ UNCHANGED <<time, queue, pc, next, log, sched, runStart, strong, ctx>>

\* ---- Timeline::run ----
\* `if next.cancelled.get() { continue; }`
IsCancelledMutant(tr, id) == FALSE

IsCancelled(tr, id) == tr[id].cancelled

\* `self.time.set(next.time)`: the clock after the call, given the clock before
SetTimeMutant(clock, due) == clock

SetTime(clock, due) == due

\* `if next.is_none() { break; }` on the result of pop()
PopIsNoneMutant(data) == Len(data) <= 1

PopIsNone(data) == data = <<>>

\* the Rc held by the local `next` is dropped when the iteration ends
DropNextMutant(st, id) == st

DropNext(st, id) == [st EXCEPT ![id] = @ - 1]

RunBegin ==
    /\ pc = "idle"
    /\ pc' = "loop"
    /\ runStart' = [time |-> time, loglen |-> Len(log)]
    /\ UNCHANGED <<time, queue, trig, next, log, sched, cancelledPending, strong, ctx>>

\* pop() returned None: break
RunBreak ==
    /\ pc = "loop"
    /\ PopIsNone(queue)
    /\ pc' = "idle"
    /\ UNCHANGED <<time, queue, trig, next, log, sched, cancelledPending, runStart, strong, ctx>>

\* popped a cancelled trigger: continue
RunSkipCancelled ==
    /\ pc = "loop"
    /\ ~PopIsNone(queue)
    /\ IsCancelled(trig, HeapPopItem(queue))
    /\ queue' = HeapPopRest(trig, queue)
    /\ strong' = DropNext(strong, HeapPopItem(queue))
    /\ UNCHANGED <<time, trig, pc, next, log, sched, cancelledPending, runStart, ctx>>

\* popped a live trigger: set the clock, enter its action
RunInvoke ==
    /\ pc = "loop"
    /\ ~PopIsNone(queue)
    /\ LET id == HeapPopItem(queue)
       IN  /\ ~IsCancelled(trig, id)
           /\ queue' = HeapPopRest(trig, queue)
           /\ time' = SetTime(time, trig[id].time)
           /\ next' = id
           /\ log' = Append(log, [id |-> id, now |-> time'])
    /\ pc' = "action"
    /\ UNCHANGED <<trig, sched, cancelledPending, runStart, strong, ctx>>

\* the action returns; `next` is dropped at the end of the iteration
ActionReturn ==
    /\ pc = "action"
    /\ pc' = "loop"
    /\ next' = 0
    /\ strong' = DropNext(strong, next)
    /\ UNCHANGED <<time, queue, trig, log, sched, cancelledPending, runStart, ctx>>

Next ==
    \/ \E d \in Delays : Schedule(d)
    \/ \E h \in 1..MaxTriggers : Cancel(h)
    \/ RunBegin
    \/ RunBreak
    \/ RunSkipCancelled
    \/ RunInvoke
    \/ ActionReturn

Spec == Init /\ [][Next]_vars

\* run() is straight-line code around the action call: once entered, its loop
\* keeps taking steps, and an action that was called returns.
FairSpec ==
    /\ Spec
    /\ WF_vars(RunBreak \/ RunSkipCancelled \/ RunInvoke)
    /\ WF_vars(ActionReturn)

\* ---- step(), as the specification describes it ----
\* pops from the timeline's queue, discarding cancelled triggers, until it
\* finds one to execute or the queue is empty: the trigger to execute (0 for
\* None) and the queue it leaves
RECURSIVE StepPop(_, _)
StepPop(tr, q) ==
    IF q = <<>> THEN [id |-> 0, rest |-> <<>>]
    ELSE IF tr[HeapPopItem(q)].cancelled THEN StepPop(tr, HeapPopRest(tr, q))
    ELSE [id |-> HeapPopItem(q), rest |-> HeapPopRest(tr, q)]

\* ---- self-rescheduling scenario ----
\* A caller schedules one action with delay ScenDelay on a fresh timeline and
\* calls run().  The action increments ctx.counter and, while the counter is
\* below ctx.limit, schedules itself again with delay ScenDelay.
CounterLimit == 10      \* largest limit the scenario is run with
ScenDelay == 1          \* the delay of every schedule call of the scenario

ScenInit ==
    /\ time = 0
    /\ queue = <<>>
    /\ trig = <<>>
    /\ pc = "idle"
    /\ next = 0
    /\ log = <<>>
    /\ sched = <<>>
    /\ cancelledPending = {}
    /\ runStart = [time |-> 0, loglen |-> 0]
    /\ strong = <<>>
    /\ ctx \in {[counter |-> 0, limit |-> n] : n \in 1..CounterLimit}

ScenFirst ==
    /\ trig = <<>>
    /\ ScheduleCall(ScenDelay)
    /\ UNCHANGED ctx

ScenRun ==
    /\ trig # <<>>
    /\ log = <<>>
    /\ RunBegin

\* the action's body, once per invocation
ScenBody ==
    /\ pc = "action"
    /\ ctx.counter < Len(log)
    /\ ctx' = [ctx EXCEPT !.counter = @ + 1]
    /\ IF ctx.counter + 1 < ctx.limit
       THEN ScheduleCall(ScenDelay)
       ELSE UNCHANGED <<time, queue, trig, pc, next, log, sched, cancelledPending,
                        runStart, strong>>

ScenReturn ==
    /\ ctx.counter = Len(log)
    /\ ActionReturn

ScenNext ==
    \/ ScenFirst
    \/ ScenRun
    \/ RunInvoke
    \/ ScenBody
    \/ ScenReturn
    \/ RunBreak

\* the caller's script, run()'s loop and the action are straight-line code
ScenSpec == ScenInit /\ [][ScenNext]_vars /\ WF_vars(ScenNext)

\* ======================= properties =======================
\* due time of the k-th invocation
LogTime(k) == trig[log[k].id].time

\* every schedule call so far had delay >= 0
NoNegativeDelay == \A i \in Ids : sched[i].delay >= 0

\* h's trigger was popped and the loop iteration that popped it has ended
Stale(h) == h \in Ids /\ ~InQueue(h) /\ next # h

MaxOf(S) == CHOOSE m \in S : \A n \in S : n <= m

\* C1: when every schedule call had a delay >= 0 (made outside run() or from
\* inside a running action), no action is invoked after an action with a
\* strictly larger due_time.
C1_NonDecreasingDueTime ==
    NoNegativeDelay =>
        \A j, k \in 1..Len(log) : j < k => LogTime(j) <= LogTime(k)

\* three invocations, not in scheduling order, one of them scheduled by an action
C1_Witness ==
    /\ NoNegativeDelay
    /\ Len(log) = 3
    /\ \E j, k \in 1..3 : j < k /\ log[j].id > log[k].id /\ LogTime(j) < LogTime(k)
    /\ \E k \in 1..3 : sched[log[k].id].by # 0

\* C2: entries with the same due_time are invoked in the order they were
\* scheduled (stated for non-negative delays, where a tied entry invoked
\* later was necessarily pending together with the earlier one).
C2_TiesInArrivalOrder ==
    NoNegativeDelay =>
        \A j, k \in 1..Len(log) :
            (j < k /\ LogTime(j) = LogTime(k)) => log[j].id < log[k].id

\* C3: a trigger cancelled while it was still in the queue is never invoked.
C3_CancelledNeverInvoked == \A i \in cancelledPending : i \notin LogIds

\* a trigger cancelled while pending was popped and discarded, triggers
\* scheduled before and after it were invoked, and run() has returned
C3_Witness ==
    \E i \in cancelledPending :
        /\ ~InQueue(i)
        /\ \E k \in 1..Len(log) : log[k].id > i
        /\ \E k \in 1..Len(log) : log[k].id < i
        /\ pc = "idle"

\* C4: a schedule call with delay < 0 inserts nothing and leaves the clock alone.
C4_NegativeDelayRejected ==
    [][\A d \in Delays : (d < 0 /\ Schedule(d)) => UNCHANGED <<queue, time>>]_vars

\* C5: the clock never decreases.
C5_ClockNeverDecreases == [][time' >= time]_vars

\* C6: no trigger is invoked twice, and a trigger that left the queue is
\* never in it again.
C6_AtMostOnce ==
    /\ [](/\ \A j, k \in 1..Len(log) : log[j].id = log[k].id => j = k
          /\ \A j, k \in 1..Len(queue) : queue[j] = queue[k] => j = k
          /\ \A i \in LogIds : ~InQueue(i))
    /\ [][\A i \in Ids : ~InQueue(i) => ~(i \in Range(queue'))]_vars

\* two runs, each with an invocation, and a discarded trigger
C6_Witness ==
    /\ pc = "idle"
    /\ runStart.loglen >= 1
    /\ Len(log) > runStart.loglen
    /\ \E i \in Ids : ~InQueue(i) /\ i \notin LogIds

\* C7: when run() has returned, the clock is the largest due_time invoked in
\* that run, or what it was before the run when nothing was invoked.
C7_NowAfterRun ==
    pc = "idle" =>
        time = IF Len(log) > runStart.loglen
               THEN MaxOf({LogTime(k) : k \in (runStart.loglen + 1)..Len(log)})
               ELSE runStart.time

C9_NowIsDueTime ==
    /\ pc = "action" => time = trig[next].time
    /\ \A k \in 1..Len(log) :
        log[k].now = sched[log[k].id].at + sched[log[k].id].delay

\* an action is running at a due time that differs from the previous clock
\* and that was computed from a non-zero clock
C9_Witness ==
    /\ pc = "action"
    /\ sched[next].at # 0
    /\ sched[next].delay # 0
    /\ runStart.time # time

C11_RunTerminatesEmpty ==
    /\ (pc # "idle") ~> (pc = "idle")
    /\ [][(pc = "loop" /\ pc' = "idle") =>
            /\ queue' = <<>>
            /\ \A i \in Ids : i \in LogIds \/ trig[i].cancelled]_vars

\* run() has returned after invoking a trigger that an action scheduled and
\* discarding a cancelled one
C11_Witness ==
    /\ pc = "idle"
    /\ queue = <<>>
    /\ Len(log) > runStart.loglen
    /\ \E i \in LogIds : sched[i].by # 0
    /\ \E i \in Ids : i \notin LogIds /\ trig[i].cancelled

\* the scenario's run() has returned
ScenDone == pc = "idle" /\ log # <<>>

\* C12: in the self-rescheduling scenario run() returns, and then the counter
\* equals the limit and the clock equals limit * delay (10 and 10.0 for the
\* limit 10 and the delay 1.0); the counter never passes the limit.
C12_SelfReschedule ==
    /\ <>ScenDone
    /\ [](ctx.counter <= ctx.limit)
    /\ [](ScenDone => (ctx.counter = ctx.limit /\ time = ctx.limit * ScenDelay))

\* the scenario of the claim has completed: limit 10, counter 10, clock 10
C12_Witness ==
    /\ ScenDone
    /\ ctx.limit = 10
    /\ ctx.counter = 10
    /\ time = 10
    /\ Len(trig) = 10

C14_PendingNotInPast ==
    /\ \A i \in Range(queue) : trig[i].time >= time
    /\ \A i \in Ids : trig[i].time >= sched[i].at

\* C15: the clock changes only in the step of run() that invokes a trigger
\* that is not cancelled, and then to that trigger's due_time; popping a
\* cancelled trigger, schedule and cancel leave it alone; as long as every
\* trigger made so far was cancelled while pending, nothing has been invoked
\* and the clock still has its initial value.
C15_ClockOnlyOnInvoke ==
    /\ [][/\ time' # time =>
                /\ pc = "loop" /\ pc' = "action"
                /\ log' = Append(log, [id |-> next', now |-> time'])
                /\ ~trig[next'].cancelled
                /\ time' = trig[next'].time
          /\ (Len(queue') < Len(queue) /\ log' = log) => time' = time
          /\ trig' # trig => time' = time]_vars
    /\ []((\A i \in Ids : i \in cancelledPending) => (log = <<>> /\ time = 0))

\* a trigger with delay 2 was cancelled, then popped last by a run() that had
\* invoked another trigger, and the clock is not at its due_time
C15_Witness ==
    /\ pc = "idle"
    /\ queue = <<>>
    /\ log # <<>>
    /\ \E x \in cancelledPending :
        /\ sched[x].delay = 2
        /\ x \notin LogIds
        /\ trig[x].time > time

\* C16: a schedule call adds exactly one trigger, due at clock + delay and
\* not cancelled, the queue grows by exactly that trigger, the clock and all
\* other triggers stay as they were; no step changes a trigger's due_time.
C16_ScheduleFrame ==
    [][/\ \A i \in Ids : trig'[i].time = trig[i].time
       /\ Len(trig') # Len(trig) =>
            LET n == Len(trig) + 1
            IN  /\ Len(trig') = n
                /\ trig'[n] = [time |-> time + sched'[n].delay, cancelled |-> FALSE]
                /\ Len(queue') = Len(queue) + 1
                /\ Range(queue') = Range(queue) \cup {n}
                /\ time' = time
                /\ \A i \in Ids : trig'[i] = trig[i]]_vars

\* a trigger scheduled by an action, with a non-zero delay at a non-zero
\* clock, is pending next to an older, cancelled trigger
C16_Witness ==
    \E a, b \in Range(queue) :
        /\ b < a
        /\ b \in sched[a].pend
        /\ trig[b].cancelled
        /\ sched[a].by # 0
        /\ sched[a].delay # 0
        /\ sched[a].at # 0

RECURSIVE DrainOrder(_, _)
DrainOrder(tr, q) ==
    IF q = <<>> THEN <<>>
    ELSE <<HeapPopItem(q)>> \o DrainOrder(tr, HeapPopRest(tr, q))

\* the queue after the schedule calls 1..n without the c-th
RECURSIVE QueueWithout(_, _, _)
QueueWithout(tr, n, c) ==
    IF n = 0 THEN <<>>
    ELSE IF n = c THEN QueueWithout(tr, n - 1, c)
    ELSE HeapPush(tr, QueueWithout(tr, n - 1, c), n)

\* nothing was popped yet: the queue is the result of the schedule calls alone
NoPopYet == pc = "idle" /\ log = <<>> /\ Len(queue) = Len(trig)

\* a cancelled flag stays set, and a step that only sets flags leaves the queue
C18_FlagOnly ==
    [][/\ \A i \in Ids : trig[i].cancelled => trig'[i].cancelled
       /\ (trig' # trig /\ Len(trig') = Len(trig)) => queue' = queue]_vars

\* C18: cancel only sets the flag, which stays set, and leaves the queue as
\* it is; the other triggers are popped in the order in which they would be
\* popped had the cancelled trigger never been scheduled.
C18_LazyCancel ==
    /\ C18_FlagOnly
    /\ [](NoPopYet =>
            \A c \in Ids :
                trig[c].cancelled =>
                    SelectSeq(DrainOrder(trig, queue), LAMBDA x : x # c)
                        = DrainOrder(trig, QueueWithout(trig, Len(trig), c)))

\* h's trigger is in the queue, or is the one whose action is running
PendingOrRunning(h) == InQueue(h) \/ (pc = "action" /\ next = h)

\* C19: a trigger's only owners are the queue and, during its iteration, the
\* run loop: its strong count is 1 while it is pending or its action runs
\* and 0 otherwise, and its handle upgrades exactly then; an action that
\* cancels its own handle keeps running and can return, and that cancel
\* changes nothing but its own flag.
C19_Ownership ==
    /\ [](\A h \in Ids :
            /\ strong[h] = IF PendingOrRunning(h) THEN 1 ELSE 0
            /\ Upgrade(queue, pc, next, h) # 0 <=> strong[h] > 0
            /\ Stale(h) => strong[h] = 0)
    /\ []((pc = "action" /\ trig[next].cancelled) =>
            (next \in LogIds /\ ENABLED ActionReturn))
    /\ [][(pc = "action" /\ Cancel(next)) =>
            /\ pc' = "action" /\ next' = next
            /\ trig'[next].cancelled
            /\ \A o \in Ids : o # next => trig'[o] = trig[o]
            /\ UNCHANGED <<time, queue, log, strong>>]_vars

\* an action has cancelled its own handle and is still running, another
\* trigger is pending and not cancelled, and the handle of a third is stale
C19_Witness ==
    /\ pc = "action"
    /\ trig[next].cancelled
    /\ \E g \in Range(queue) : ~trig[g].cancelled
    /\ \E h \in Ids : Stale(h) /\ strong[h] = 0

====
